---- MODULE Spec2Model ----
(***************************************************************************)
(* A model of the MCP Key Server backend: the API key and npm package      *)
(* routers (owner-or-admin CRUD over two tables) and the package           *)
(* installer (npm subprocess, background dispatch, manifest listing).      *)
(*                                                                         *)
(* Python values are encoded uniformly: None is the empty tuple <<>> and   *)
(* any other value v is the one-element tuple <<v>>, so that "is None",    *)
(* truthiness and equality can be told apart for every column type.        *)
(* A table is a function from the primary keys in use to rows.             *)
(***************************************************************************)
EXTENDS Integers, Sequences, FiniteSets, TLC

VARIABLES
  api_keys,         \* table api_keys (models.ApiKey): primary key -> row
  next_key_id,      \* the next primary key of api_keys
  npm_packages,     \* table npm_packages (models.NpmPackage): primary key -> row
  next_package_id,  \* the next primary key of npm_packages
  in_flight,        \* create_npm_package requests past their duplicate query
  cache_dir,        \* whether settings.NPM_CACHE_DIR exists
  manifest,         \* package.json in the cache directory, None when missing
  tasks,            \* the install tasks queued with BackgroundTasks.add_task
  response          \* the answer to the last request

vars == <<api_keys, next_key_id, npm_packages, next_package_id, in_flight,
          cache_dir, manifest, tasks, response>>

key_vars == <<api_keys, next_key_id>>
pkg_vars == <<npm_packages, next_package_id, in_flight>>
fs_vars == <<cache_dir, manifest, tasks>>

\* ---------------------------------------------------------------- bounds

\* Primary keys the api_keys sequence hands out: 1..MaxKeyId.
MaxKeyId == 2
\* Primary keys the npm_packages sequence hands out: 1..MaxPackageId.
MaxPackageId == 2
\* Create requests on npm packages that may be in progress at once.
MaxInFlight == 2
\* Background install tasks accepted in one run.
MaxTasks == 2

\* ---------------------------------------------------------- Python values

None == <<>>
Some(v) == <<v>>
\* Python truthiness of an Optional[str]: None and "" are falsy.
Truthy(x) == x /= None /\ x /= Some("")

\* The authenticated callers: two ordinary users and one admin.
Users ==
  { [id |-> 1, is_admin |-> FALSE],
    [id |-> 2, is_admin |-> FALSE],
    [id |-> 3, is_admin |-> TRUE] }

\* A faulty variant of the check below: the admin flag is not consulted.
NotAuthorizedIgnoringAdmin(row, current_user) == row.owner_id /= current_user.id
\* The test every get/update/delete handler repeats before answering 403:
\* "owner_id != current_user.id and not current_user.is_admin".
NotAuthorized(row, current_user) ==
  row.owner_id /= current_user.id /\ ~current_user.is_admin

\* db.query(Model).filter(Model.id == id).first(): the row or None.
QueryById(table, id) == IF id \in DOMAIN table THEN Some(table[id]) ELSE None

\* A faulty variant of the delete below: the query is not filtered by id.
DeleteEveryRow(table, id) == [k \in {} |-> table[k]]
\* A table with one row deleted.
DeleteRow(table, id) == [k \in DOMAIN table \ {id} |-> table[k]]

\* A handler's result: the table after the request and the HTTP answer.
Result(table, status, body) == [table |-> table, status |-> status, body |-> body]

\* ------------------------------------------------------------- API keys

\* Column(onupdate=func.now()): stamped when a flush changes the row.
Touch(old, new) ==
  IF new = old THEN new ELSE [new EXCEPT !.updated_at = Some("now")]

\* schemas.ApiKeyUpdate: every field Optional with default None, so a field
\* missing from the JSON body and a field sent as null both parse to None.
ApiKeyUpdateFields == {"name", "service", "description", "is_active", "metadata"}
ApiKeyUpdate(json) ==
  [f \in ApiKeyUpdateFields |-> IF f \in DOMAIN json THEN json[f] ELSE None]

\* A faulty variant of create_api_key: is_active is not passed on, so the
\* column default (True) is stored.
create_api_key_default_active(table, id, api_key, current_user) ==
  LET db_api_key ==
        [id |-> id,
         name |-> api_key.name,
         key |-> api_key.key,
         service |-> api_key.service,
         description |-> api_key.description,
         is_active |-> Some(TRUE),
         metadata |-> api_key.metadata,
         owner_id |-> current_user.id,
         created_at |-> Some("now"),
         updated_at |-> None]
  IN Result((id :> db_api_key) @@ table, 201, Some(db_api_key))
\* POST /api/keys/: the row is built from the request and the caller, added
\* and committed; the database assigns id and created_at.
create_api_key(table, id, api_key, current_user) ==
  LET db_api_key ==
        [id |-> id,
         name |-> api_key.name,
         key |-> api_key.key,
         service |-> api_key.service,
         description |-> api_key.description,
         is_active |-> api_key.is_active,
         metadata |-> api_key.metadata,
         owner_id |-> current_user.id,
         created_at |-> Some("now"),
         updated_at |-> None]
  IN Result((id :> db_api_key) @@ table, 201, Some(db_api_key))

get_api_key(table, key_id, current_user) ==
  LET db_api_key == QueryById(table, key_id)
  IN IF db_api_key = None THEN Result(table, 404, None)
     ELSE IF NotAuthorized(db_api_key[1], current_user) THEN Result(table, 403, None)
     ELSE Result(table, 200, db_api_key)

\* The assignments of update_api_key: a column is overwritten when the
\* parsed field "is not None".
ApplyApiKeyUpdate(row, api_key_update) ==
  [row EXCEPT
     !.name = IF api_key_update.name /= None THEN api_key_update.name ELSE @,
     !.service = IF api_key_update.service /= None THEN api_key_update.service ELSE @,
     !.description =
        IF api_key_update.description /= None THEN api_key_update.description ELSE @,
     !.is_active =
        IF api_key_update.is_active /= None THEN api_key_update.is_active ELSE @,
     !.metadata = IF api_key_update.metadata /= None THEN api_key_update.metadata ELSE @]

update_api_key(table, key_id, json, current_user) ==
  LET db_api_key == QueryById(table, key_id)
      api_key_update == ApiKeyUpdate(json)
  IN IF db_api_key = None THEN Result(table, 404, None)
     ELSE IF NotAuthorized(db_api_key[1], current_user) THEN Result(table, 403, None)
     ELSE LET row == Touch(db_api_key[1], ApplyApiKeyUpdate(db_api_key[1], api_key_update))
          IN Result([table EXCEPT ![key_id] = row], 200, Some(row))

delete_api_key(table, key_id, current_user) ==
  LET db_api_key == QueryById(table, key_id)
  IN IF db_api_key = None THEN Result(table, 404, None)
     ELSE IF NotAuthorized(db_api_key[1], current_user) THEN Result(table, 403, None)
     ELSE Result(DeleteRow(table, key_id), 204, None)

\* The caller's own keys; "if service:" and "if is_active is not None:"
\* decide which filters are added to the query.
get_api_keys(table, service, is_active, current_user) ==
  LET owned == {k \in DOMAIN table : table[k].owner_id = current_user.id}
      by_service ==
        IF Truthy(service) THEN {k \in owned : table[k].service = service} ELSE owned
      by_active ==
        IF is_active /= None
          THEN {k \in by_service : table[k].is_active = is_active}
          ELSE by_service
  IN Result(table, 200, {table[k] : k \in by_active})

\* Request bodies of POST /api/keys/ (schemas.ApiKeyCreate).
ApiKeyCreateInputs ==
  { [name |-> Some("gh"), key |-> Some("abc"), service |-> Some("github"),
     description |-> Some("d"), is_active |-> Some(TRUE), metadata |-> None],
    [name |-> Some("x"), key |-> Some("xyz"), service |-> Some(""),
     description |-> None, is_active |-> Some(FALSE), metadata |-> Some("m")] }

\* JSON bodies of PUT /api/keys/{id}: any subset of the fields may be
\* present, and a present field may be null, empty or false.
ApiKeyUpdateBodies ==
  { <<>>,
    [description |-> Some("")],
    [description |-> None],
    [name |-> Some("x"), is_active |-> Some(FALSE)] }

\* Query parameters of GET /api/keys/.
ServiceParams == {None, Some(""), Some("github")}
IsActiveParams == {None, Some(TRUE), Some(FALSE)}

KeyIds == 1..MaxKeyId

Respond(op, result) == response' = [op |-> op, status |-> result.status]

CreateApiKey(current_user, api_key) ==
  /\ next_key_id <= MaxKeyId
  /\ LET r == create_api_key(api_keys, next_key_id, api_key, current_user)
     IN /\ api_keys' = r.table
        /\ Respond("create_api_key", r)
  /\ next_key_id' = next_key_id + 1
  /\ UNCHANGED <<pkg_vars, fs_vars>>

GetApiKeys(current_user, service, is_active) ==
  /\ Respond("get_api_keys", get_api_keys(api_keys, service, is_active, current_user))
  /\ UNCHANGED <<key_vars, pkg_vars, fs_vars>>

GetApiKey(current_user, key_id) ==
  /\ Respond("get_api_key", get_api_key(api_keys, key_id, current_user))
  /\ UNCHANGED <<key_vars, pkg_vars, fs_vars>>

UpdateApiKey(current_user, key_id, json) ==
  /\ LET r == update_api_key(api_keys, key_id, json, current_user)
     IN /\ api_keys' = r.table
        /\ Respond("update_api_key", r)
  /\ UNCHANGED <<next_key_id, pkg_vars, fs_vars>>

DeleteApiKey(current_user, key_id) ==
  /\ LET r == delete_api_key(api_keys, key_id, current_user)
     IN /\ api_keys' = r.table
        /\ Respond("delete_api_key", r)
  /\ UNCHANGED <<next_key_id, pkg_vars, fs_vars>>

\* --------------------------------------------------------- npm packages

\* schemas.NpmPackageUpdate, parsed like ApiKeyUpdate.
NpmPackageUpdateFields == {"version", "description", "is_private", "package_json"}
NpmPackageUpdate(json) ==
  [f \in NpmPackageUpdateFields |-> IF f \in DOMAIN json THEN json[f] ELSE None]

\* A faulty variant of the query below: the owner filter is missing.
ExistingPackageAnyOwner(table, package, current_user) ==
  LET hits == {k \in DOMAIN table :
                 /\ table[k].name = package.name
                 /\ table[k].version = package.version}
  IN IF hits = {} THEN None ELSE Some(table[CHOOSE k \in hits : \A j \in hits : k <= j])
\* The duplicate query of create_npm_package: .first() of the rows with the
\* request's name and version and the caller as owner, or None.
ExistingPackage(table, package, current_user) ==
  LET hits == {k \in DOMAIN table :
                 /\ table[k].name = package.name
                 /\ table[k].version = package.version
                 /\ table[k].owner_id = current_user.id}
  IN IF hits = {} THEN None ELSE Some(table[CHOOSE k \in hits : \A j \in hits : k <= j])

\* The insert of create_npm_package, reached when the query found nothing.
InsertPackage(table, id, package, current_user) ==
  LET db_package ==
        [id |-> id,
         name |-> package.name,
         version |-> package.version,
         description |-> package.description,
         is_private |-> package.is_private,
         package_json |-> package.package_json,
         owner_id |-> current_user.id,
         created_at |-> Some("now"),
         updated_at |-> None]
  IN Result((id :> db_package) @@ table, 201, Some(db_package))

\* The handler run without interruption: query, then 400 or insert.
create_npm_package(table, id, package, current_user) ==
  IF ExistingPackage(table, package, current_user) /= None
    THEN Result(table, 400, None)
    ELSE InsertPackage(table, id, package, current_user)

get_npm_package(table, package_id, current_user) ==
  LET db_package == QueryById(table, package_id)
  IN IF db_package = None THEN Result(table, 404, None)
     ELSE IF NotAuthorized(db_package[1], current_user) THEN Result(table, 403, None)
     ELSE Result(table, 200, db_package)

ApplyNpmPackageUpdate(row, package_update) ==
  [row EXCEPT
     !.version = IF package_update.version /= None THEN package_update.version ELSE @,
     !.description =
        IF package_update.description /= None THEN package_update.description ELSE @,
     !.is_private =
        IF package_update.is_private /= None THEN package_update.is_private ELSE @,
     !.package_json =
        IF package_update.package_json /= None THEN package_update.package_json ELSE @]

update_npm_package(table, package_id, json, current_user) ==
  LET db_package == QueryById(table, package_id)
      package_update == NpmPackageUpdate(json)
  IN IF db_package = None THEN Result(table, 404, None)
     ELSE IF NotAuthorized(db_package[1], current_user) THEN Result(table, 403, None)
     ELSE LET row == Touch(db_package[1], ApplyNpmPackageUpdate(db_package[1], package_update))
          IN Result([table EXCEPT ![package_id] = row], 200, Some(row))

delete_npm_package(table, package_id, current_user) ==
  LET db_package == QueryById(table, package_id)
  IN IF db_package = None THEN Result(table, 404, None)
     ELSE IF NotAuthorized(db_package[1], current_user) THEN Result(table, 403, None)
     ELSE Result(DeleteRow(table, package_id), 204, None)

\* Request bodies of POST /api/npm/packages (schemas.NpmPackageCreate).
NpmPackageCreateInputs ==
  { [name |-> Some("left-pad"), version |-> Some("1.0.0"), description |-> None,
     is_private |-> Some(FALSE), package_json |-> None],
    [name |-> Some("left-pad"), version |-> Some("2.0.0"), description |-> None,
     is_private |-> Some(FALSE), package_json |-> None] }

\* JSON bodies of PUT /api/npm/packages/{id}.
NpmPackageUpdateBodies ==
  { <<>>,
    [version |-> Some("2.0.0")],
    [description |-> Some(""), version |-> None] }

PackageIds == 1..MaxPackageId

\* One request handled with no other request in between.
CreateNpmPackage(current_user, package) ==
  /\ in_flight = <<>>
  /\ LET r == create_npm_package(npm_packages, next_package_id, package, current_user)
     IN /\ r.status = 201 => next_package_id <= MaxPackageId
        /\ npm_packages' = r.table
        /\ next_package_id' = IF r.status = 201 THEN next_package_id + 1 ELSE next_package_id
        /\ Respond("create_npm_package", r)
  /\ UNCHANGED <<in_flight, key_vars, fs_vars>>

\* Requests handled in parallel: each worker runs the duplicate query, and
\* later its insert and commit; other requests may commit in between.
CreateNpmPackageQuery(current_user, package) ==
  /\ LET db_package == ExistingPackage(npm_packages, package, current_user)
     IN IF db_package /= None
          THEN /\ Respond("create_npm_package", Result(npm_packages, 400, None))
               /\ UNCHANGED in_flight
          ELSE /\ Len(in_flight) < MaxInFlight
               /\ next_package_id + Len(in_flight) <= MaxPackageId
               /\ in_flight' = Append(in_flight,
                                      [current_user |-> current_user, package |-> package])
               /\ UNCHANGED response
  /\ UNCHANGED <<npm_packages, next_package_id, key_vars, fs_vars>>

CreateNpmPackageCommit(i) ==
  /\ i \in 1..Len(in_flight)
  /\ LET r == InsertPackage(npm_packages, next_package_id,
                            in_flight[i].package, in_flight[i].current_user)
     IN /\ npm_packages' = r.table
        /\ Respond("create_npm_package", r)
  /\ next_package_id' = next_package_id + 1
  /\ in_flight' = [j \in 1..(Len(in_flight) - 1) |->
                     IF j < i THEN in_flight[j] ELSE in_flight[j + 1]]
  /\ UNCHANGED <<key_vars, fs_vars>>

GetNpmPackage(current_user, package_id) ==
  /\ Respond("get_npm_package", get_npm_package(npm_packages, package_id, current_user))
  /\ UNCHANGED <<pkg_vars, key_vars, fs_vars>>

UpdateNpmPackage(current_user, package_id, json) ==
  /\ LET r == update_npm_package(npm_packages, package_id, json, current_user)
     IN /\ npm_packages' = r.table
        /\ Respond("update_npm_package", r)
  /\ UNCHANGED <<next_package_id, in_flight, key_vars, fs_vars>>

DeleteNpmPackage(current_user, package_id) ==
  /\ LET r == delete_npm_package(npm_packages, package_id, current_user)
     IN /\ npm_packages' = r.table
        /\ Respond("delete_npm_package", r)
  /\ UNCHANGED <<next_package_id, in_flight, key_vars, fs_vars>>

\* ---------------------------------------------------- package installer

\* settings.NPM_REGISTRY, the default of config.py.
NPM_REGISTRY == "https://registry.npmjs.org"

\* What the npm subprocess can do: exit 0 with output, or exit non-zero
\* (subprocess.run(check=True) then raises CalledProcessError) with stderr.
NpmRuns ==
  { [returncode |-> 0, stdout |-> "added 1 package", stderr |-> ""],
    [returncode |-> 1, stdout |-> "", stderr |-> "E404"] }

run_npm_command(command, proc) ==
  IF proc.returncode = 0
    THEN [success |-> TRUE, output |-> proc.stdout]
    ELSE [success |-> FALSE, error |-> proc.stderr]

\* f"{package_name}@{version}" as the pair it is built from; the bare name
\* when version is None or empty.
PackageIdentifier(package_name, version) ==
  IF Truthy(version) THEN <<package_name, "@", version[1]>> ELSE <<package_name>>

\* os.makedirs(exist_ok=True) leaves the cache directory in place; then the
\* command is built and run once.
install_npm_package(package_name, version, proc) ==
  LET command == <<"npm", "install", PackageIdentifier(package_name, version),
                   "--registry", NPM_REGISTRY>>
  IN [cache_dir |-> TRUE, command |-> command, result |-> run_npm_command(command, proc)]

\* A task BackgroundTasks.add_task queued: the call it will make, how often
\* the call was made, and result["success"] of the call once it was made.
Task(package_name, version) ==
  [package_name |-> package_name, version |-> version, runs |-> 0, success |-> None]

\* A faulty variant of install_package: npm is run in the handler before
\* the task is queued, and the answer reports its result.
install_package_blocking(package_name, version, background_tasks, proc) ==
  LET result == install_npm_package(package_name, version, proc).result
  IN IF result.success
       THEN [status |-> 202,
             body |-> <<"Installation of ", package_name, " started in the background">>,
             queued |-> IF background_tasks THEN <<Task(package_name, version)>> ELSE <<>>,
             ran |-> TRUE]
       ELSE [status |-> 500,
             body |-> <<"Failed to install package: ", result.error>>,
             queued |-> <<>>,
             ran |-> TRUE]
\* install_package as a function of the request, of whether a
\* BackgroundTasks object was passed, and of what npm does if the handler
\* runs it: the answer, the tasks queued and whether npm ran in the handler.
\* The route declares status_code=202 for every normal return.
install_package(package_name, version, background_tasks, proc) ==
  IF background_tasks
    THEN [status |-> 202,
          body |-> <<"Installation of ", package_name, " started in the background">>,
          queued |-> <<Task(package_name, version)>>,
          ran |-> FALSE]
    ELSE LET result == install_npm_package(package_name, version, proc).result
         IN IF result.success
              THEN [status |-> 202,
                    body |-> <<"Successfully installed ", package_name>>,
                    queued |-> <<>>,
                    ran |-> TRUE]
              ELSE [status |-> 500,
                    body |-> <<"Failed to install package: ", result.error>>,
                    queued |-> <<>>,
                    ran |-> TRUE]

\* package_data.get(key, {}) on the parsed manifest.
DictGet(package_data, key) ==
  IF key \in DOMAIN package_data THEN package_data[key] ELSE <<>>

\* A faulty variant of the loops below: devDependencies are left out.
InstalledEntriesNoDev(dependencies, dev_dependencies) ==
  [i \in 1..Len(dependencies) |->
     [name |-> dependencies[i][1], version |-> dependencies[i][2], dev |-> FALSE]]
\* The two loops of list_installed_packages over dict items, in order.
InstalledEntries(dependencies, dev_dependencies) ==
  [i \in 1..Len(dependencies) |->
     [name |-> dependencies[i][1], version |-> dependencies[i][2], dev |-> FALSE]]
  \o
  [i \in 1..Len(dev_dependencies) |->
     [name |-> dev_dependencies[i][1], version |-> dev_dependencies[i][2], dev |-> TRUE]]

\* dir_exists: os.path.exists(NPM_CACHE_DIR); file: None when package.json
\* is missing, else its content: whether json.load accepts it, whether the
\* value is a JSON object, and the object (a dict as its items in order).
\* Any exception inside the try block becomes the 500 answer.
list_installed_packages(dir_exists, file) ==
  IF ~dir_exists THEN [status |-> 200, body |-> <<>>]
  ELSE IF file = None THEN [status |-> 200, body |-> <<>>]
  ELSE IF ~file[1].json \/ ~file[1].object
    THEN [status |-> 500, body |-> <<"Failed to read package.json: ">>]
  ELSE [status |-> 200,
        body |-> InstalledEntries(DictGet(file[1].data, "dependencies"),
                                  DictGet(file[1].data, "devDependencies"))]

\* Contents package.json may have.
Manifests ==
  { [json |-> FALSE, object |-> FALSE, data |-> <<>>],
    [json |-> TRUE, object |-> FALSE, data |-> <<>>],
    [json |-> TRUE, object |-> TRUE, data |-> <<>>],
    [json |-> TRUE, object |-> TRUE,
     data |-> [dependencies |-> << <<"left-pad", "^1.3.0">> >>]],
    [json |-> TRUE, object |-> TRUE,
     data |-> [dependencies |-> << <<"left-pad", "^1.3.0">>, <<"jest", "^29.0.0">> >>,
               devDependencies |-> << <<"jest", "^29.0.0">> >>]] }

PackageNames == {"left-pad"}
VersionParams == {None, Some("1.0.0")}

\* POST /api/npm/install.
InstallPackage(package_name, version, background_tasks, proc) ==
  /\ background_tasks => Len(tasks) < MaxTasks
  /\ LET r == install_package(package_name, version, background_tasks, proc)
     IN /\ tasks' = tasks \o r.queued
        /\ cache_dir' = (cache_dir \/ r.ran)
        /\ response' = [op |-> "install_package", status |-> r.status, body |-> r.body,
                        background |-> background_tasks, returncode |-> proc.returncode]
  /\ UNCHANGED <<manifest, key_vars, pkg_vars>>

\* The framework calls a queued task once the response has been sent: the
\* task is install_npm_package, whose return value nobody reads.
RunBackgroundTask(i, proc) ==
  /\ i \in 1..Len(tasks)
  /\ tasks[i].runs = 0
  /\ LET r == install_npm_package(tasks[i].package_name, tasks[i].version, proc)
     IN /\ tasks' = [tasks EXCEPT ![i].runs = @ + 1,
                                  ![i].success = Some(r.result.success)]
        /\ cache_dir' = r.cache_dir
  /\ UNCHANGED <<manifest, response, key_vars, pkg_vars>>

\* GET /api/npm/installed.
ListInstalledPackages ==
  /\ LET r == list_installed_packages(cache_dir, manifest)
     IN response' = [op |-> "list_installed_packages", status |-> r.status, body |-> r.body]
  /\ UNCHANGED <<fs_vars, key_vars, pkg_vars>>

\* npm, or anything else on the host, rewrites or removes package.json in
\* the cache directory, or removes the directory.
WriteManifest(file) ==
  /\ cache_dir
  /\ manifest' = file
  /\ UNCHANGED <<cache_dir, tasks, response, key_vars, pkg_vars>>

RemoveCacheDir ==
  /\ cache_dir
  /\ cache_dir' = FALSE
  /\ manifest' = None
  /\ UNCHANGED <<tasks, response, key_vars, pkg_vars>>

\* ------------------------------------------------------- specifications

Init ==
  /\ api_keys = <<>>
  /\ next_key_id = 1
  /\ npm_packages = <<>>
  /\ next_package_id = 1
  /\ in_flight = <<>>
  /\ cache_dir = FALSE
  /\ manifest = None
  /\ tasks = <<>>
  /\ response = [op |-> "none", status |-> 0]

KeysNext ==
  \/ \E u \in Users, api_key \in ApiKeyCreateInputs : CreateApiKey(u, api_key)
  \/ \E u \in Users, s \in ServiceParams, a \in IsActiveParams : GetApiKeys(u, s, a)
  \/ \E u \in Users, id \in KeyIds : GetApiKey(u, id)
  \/ \E u \in Users, id \in KeyIds, json \in ApiKeyUpdateBodies : UpdateApiKey(u, id, json)
  \/ \E u \in Users, id \in KeyIds : DeleteApiKey(u, id)

SpecKeys == Init /\ [][KeysNext]_vars

NpmNext ==
  \/ \E u \in Users, package \in NpmPackageCreateInputs : CreateNpmPackageQuery(u, package)
  \/ \E i \in 1..MaxInFlight : CreateNpmPackageCommit(i)
  \/ \E u \in Users, id \in PackageIds : GetNpmPackage(u, id)
  \/ \E u \in Users, id \in PackageIds, json \in NpmPackageUpdateBodies :
        UpdateNpmPackage(u, id, json)
  \/ \E u \in Users, id \in PackageIds : DeleteNpmPackage(u, id)

SpecNpm == Init /\ [][NpmNext]_vars

\* Both routers of the application serving requests, each request handled
\* with no other in between.
CrudKeyInputs == {k \in ApiKeyCreateInputs : k.name = Some("gh")}
CrudKeyBodies == {[description |-> Some("d")]}
CrudPackageInputs == {k \in NpmPackageCreateInputs : k.version = Some("1.0.0")}
CrudPackageBodies == {[version |-> Some("1.0.0")]}

CrudNext ==
  \/ \E u \in Users, api_key \in CrudKeyInputs : CreateApiKey(u, api_key)
  \/ \E u \in Users, id \in KeyIds : GetApiKey(u, id)
  \/ \E u \in Users, id \in KeyIds, json \in CrudKeyBodies : UpdateApiKey(u, id, json)
  \/ \E u \in Users, id \in KeyIds : DeleteApiKey(u, id)
  \/ \E u \in Users, package \in CrudPackageInputs : CreateNpmPackage(u, package)
  \/ \E u \in Users, id \in PackageIds : GetNpmPackage(u, id)
  \/ \E u \in Users, id \in PackageIds, json \in CrudPackageBodies :
        UpdateNpmPackage(u, id, json)
  \/ \E u \in Users, id \in PackageIds : DeleteNpmPackage(u, id)

SpecCrud == Init /\ [][CrudNext]_vars

InstallNext ==
  \/ \E n \in PackageNames, v \in VersionParams, b \in BOOLEAN, proc \in NpmRuns :
        InstallPackage(n, v, b, proc)
  \/ \E i \in 1..MaxTasks, proc \in NpmRuns : RunBackgroundTask(i, proc)
  \/ ListInstalledPackages
  \/ \E file \in {None} \cup {Some(m) : m \in Manifests} : WriteManifest(file)
  \/ RemoveCacheDir

\* The framework runs every queued task.
InstallFairness == \A i \in 1..MaxTasks : WF_vars(\E proc \in NpmRuns : RunBackgroundTask(i, proc))

SpecInstall == Init /\ [][InstallNext]_vars /\ InstallFairness

\* ---------------------------------------------------------------- claims

\* The rule the specification states: the owner or an admin.
Allowed(row, u) == row.owner_id = u.id \/ u.is_admin

\* C1: on every stored ApiKey or NpmPackage row and for every caller, get,
\* update and delete succeed if and only if the caller owns the row or is an
\* admin; otherwise the answer is 403 and the table is left as it was.
C1_OwnerOrAdmin ==
  \A u \in Users :
    /\ \A id \in DOMAIN api_keys :
         LET ok == Allowed(api_keys[id], u)
             g == get_api_key(api_keys, id, u)
             d == delete_api_key(api_keys, id, u)
         IN /\ g.status = (IF ok THEN 200 ELSE 403)
            /\ ok => g.body = Some(api_keys[id])
            /\ d.status = (IF ok THEN 204 ELSE 403)
            /\ d.table = (IF ok THEN DeleteRow(api_keys, id) ELSE api_keys)
            /\ \A json \in ApiKeyUpdateBodies :
                 LET w == update_api_key(api_keys, id, json, u)
                 IN /\ w.status = (IF ok THEN 200 ELSE 403)
                    /\ ~ok => w.table = api_keys
                    /\ ok => \A f \in DOMAIN json :
                               json[f] /= None => w.table[id][f] = json[f]
    /\ \A id \in DOMAIN npm_packages :
         LET ok == Allowed(npm_packages[id], u)
             g == get_npm_package(npm_packages, id, u)
             d == delete_npm_package(npm_packages, id, u)
         IN /\ g.status = (IF ok THEN 200 ELSE 403)
            /\ ok => g.body = Some(npm_packages[id])
            /\ d.status = (IF ok THEN 204 ELSE 403)
            /\ d.table = (IF ok THEN DeleteRow(npm_packages, id) ELSE npm_packages)
            /\ \A json \in NpmPackageUpdateBodies :
                 LET w == update_npm_package(npm_packages, id, json, u)
                 IN /\ w.status = (IF ok THEN 200 ELSE 403)
                    /\ ~ok => w.table = npm_packages
                    /\ ok => \A f \in DOMAIN json :
                               json[f] /= None => w.table[id][f] = json[f]

\* A caller was just refused with 403 on a package while rows of other
\* owners, an admin's among them, are stored in both tables.
C1_Witness ==
  /\ response.op \in {"get_npm_package", "update_npm_package", "delete_npm_package"}
  /\ response.status = 403
  /\ \E id \in DOMAIN api_keys : api_keys[id].owner_id = 3
  /\ \E id \in DOMAIN npm_packages : npm_packages[id].owner_id = 1

\* C2: an authorized update applies exactly the fields present in the JSON
\* body, a field sent as null, empty or false included, and leaves every
\* absent field as it was.
C2_PresenceDecides ==
  \A u \in Users, id \in DOMAIN api_keys, json \in ApiKeyUpdateBodies :
    Allowed(api_keys[id], u) =>
      LET w == update_api_key(api_keys, id, json, u)
      IN \A f \in ApiKeyUpdateFields :
           w.table[id][f] = (IF f \in DOMAIN json THEN json[f] ELSE api_keys[id][f])

\* C3: the list of API keys is exactly the caller's rows that equal every
\* supplied filter; a supplied service, the empty string included, restricts
\* the result to the rows with that service.
C3_ListExactlyFiltered ==
  \A u \in Users, service \in ServiceParams, is_active \in IsActiveParams :
    get_api_keys(api_keys, service, is_active, u).body =
      { api_keys[k] : k \in
          { k \in DOMAIN api_keys :
              /\ api_keys[k].owner_id = u.id
              /\ service /= None => api_keys[k].service = service
              /\ is_active /= None => api_keys[k].is_active = is_active } }

\* Two rows with the same name, version and owner.
SameTriple(a, b) ==
  a.name = b.name /\ a.version = b.version /\ a.owner_id = b.owner_id

\* C4: creating an npm package is rejected (400, no row added) whenever the
\* table holds a row with the request's name and version and the caller as
\* owner; it succeeds, adding that one row, when no such row exists, even if
\* another owner holds the same name and version.
C4_DuplicateRejected ==
  \A u \in Users, package \in NpmPackageCreateInputs :
    LET dup == \E k \in DOMAIN npm_packages :
                 /\ npm_packages[k].name = package.name
                 /\ npm_packages[k].version = package.version
                 /\ npm_packages[k].owner_id = u.id
        r == create_npm_package(npm_packages, next_package_id, package, u)
    IN IF dup
         THEN r.status = 400 /\ r.table = npm_packages
         ELSE /\ r.status = 201
              /\ DOMAIN r.table = DOMAIN npm_packages \cup {next_package_id}
              /\ \A k \in DOMAIN npm_packages : r.table[k] = npm_packages[k]
              /\ r.table[next_package_id].name = package.name
              /\ r.table[next_package_id].version = package.version
              /\ r.table[next_package_id].owner_id = u.id

\* A create was just rejected as a duplicate while two owners hold rows with
\* the same name and version.
C4_Witness ==
  /\ response = [op |-> "create_npm_package", status |-> 400]
  /\ \E i, j \in DOMAIN npm_packages :
       /\ npm_packages[i].owner_id /= npm_packages[j].owner_id
       /\ npm_packages[i].name = npm_packages[j].name
       /\ npm_packages[i].version = npm_packages[j].version

\* C5: in every reachable state no two npm package rows have the same name,
\* version and owner.
C5_UniqueTriple ==
  \A i, j \in DOMAIN npm_packages :
    i /= j => ~SameTriple(npm_packages[i], npm_packages[j])

\* C6: for every create input, create followed by get of the returned id by
\* the same caller returns a row whose name, key, service, description,
\* is_active and metadata equal the input, owned by the caller, with only
\* id, owner and timestamps added.
C6_CreateThenGet ==
  \A u \in Users, api_key \in ApiKeyCreateInputs :
    LET c == create_api_key(api_keys, next_key_id, api_key, u)
        g == get_api_key(c.table, c.body[1].id, u)
    IN /\ c.status = 201
       /\ g.status = 200
       /\ g.body /= None
       /\ \A f \in DOMAIN api_key : g.body[1][f] = api_key[f]
       /\ g.body[1].owner_id = u.id
       /\ g.body[1].id = next_key_id
       /\ DOMAIN g.body[1] \ DOMAIN api_key = {"id", "owner_id", "created_at", "updated_at"}
       /\ \A k \in DOMAIN api_keys : c.table[k] = api_keys[k]

\* An owner has just read back a key, created inactive, that no update touched.
C6_Witness ==
  /\ response = [op |-> "get_api_key", status |-> 200]
  /\ \E id \in DOMAIN api_keys :
       api_keys[id].is_active = Some(FALSE) /\ api_keys[id].updated_at = None

\* C7: the install endpoint answers 202 when the install is dispatched as a
\* background task, 200 when a synchronous install succeeds, and 500 with
\* the subprocess's error output when a synchronous install fails.
C7_InstallStatus ==
  response.op = "install_package" =>
    /\ response.status =
         (IF response.background THEN 202
          ELSE IF response.returncode = 0 THEN 200 ELSE 500)
    /\ response.status = 500 =>
         \E proc \in NpmRuns :
           /\ proc.returncode = response.returncode
           /\ response.body = <<"Failed to install package: ", proc.stderr>>

\* Whether package.json reads as a manifest.
Parses(file) == file /= None /\ file[1].json /\ file[1].object

\* C8: list_installed returns the empty list when the cache directory or the
\* manifest is missing; when the manifest parses, one entry per name in
\* dependencies tagged dev = false and one per name in devDependencies
\* tagged dev = true, and nothing else; when the manifest exists and cannot
\* be parsed, a 500 error instead of a list.
C8_ListInstalled ==
  LET r == list_installed_packages(cache_dir, manifest)
  IN /\ (~cache_dir \/ manifest = None) => r = [status |-> 200, body |-> <<>>]
     /\ (cache_dir /\ Parses(manifest)) =>
          LET deps == DictGet(manifest[1].data, "dependencies")
              dev == DictGet(manifest[1].data, "devDependencies")
          IN /\ r.status = 200
             /\ Len(r.body) = Len(deps) + Len(dev)
             /\ {r.body[i] : i \in 1..Len(r.body)} =
                  {[name |-> deps[i][1], version |-> deps[i][2], dev |-> FALSE] :
                     i \in 1..Len(deps)}
                  \cup
                  {[name |-> dev[i][1], version |-> dev[i][2], dev |-> TRUE] :
                     i \in 1..Len(dev)}
     /\ (cache_dir /\ manifest /= None /\ ~Parses(manifest)) =>
          r = [status |-> 500, body |-> <<"Failed to read package.json: ">>]
     /\ response.op = "list_installed_packages" =>
          (response.status = 200 \/ response.body = <<"Failed to read package.json: ">>)

\* The last answer listed a manifest with a package in both maps.
C8_Witness ==
  /\ response.op = "list_installed_packages"
  /\ response.status = 200
  /\ \E i, j \in 1..Len(response.body) :
       /\ response.body[i].name = response.body[j].name
       /\ ~response.body[i].dev
       /\ response.body[j].dev

\* C9: for a caller who is neither admin nor owner, get, update and delete
\* on another owner's row answer as they would if the row did not exist.
C9_NoExistenceLeak ==
  \A u \in Users, id \in DOMAIN api_keys :
    ~Allowed(api_keys[id], u) =>
      LET without == DeleteRow(api_keys, id)
      IN /\ get_api_key(api_keys, id, u).status = get_api_key(without, id, u).status
         /\ delete_api_key(api_keys, id, u).status = delete_api_key(without, id, u).status
         /\ \A json \in ApiKeyUpdateBodies :
              update_api_key(api_keys, id, json, u).status =
                update_api_key(without, id, json, u).status

\* The acknowledgment of a background dispatch.
Ack(package_name) ==
  [status |-> 202,
   body |-> <<"Installation of ", package_name, " started in the background">>]

\* C10, in every state: a background dispatch answers the same 202
\* acknowledgment whatever npm does, runs nothing in the handler and queues
\* one task; no task has run more than once.
C10_State ==
  /\ \A n \in PackageNames, v \in VersionParams, proc \in NpmRuns :
       LET r == install_package(n, v, TRUE, proc)
       IN /\ [status |-> r.status, body |-> r.body] = Ack(n)
          /\ ~r.ran
          /\ r.queued = <<Task(n, v)>>
  /\ \A i \in 1..Len(tasks) : tasks[i].runs <= 1

\* C10, in every step: a task enters the queue not yet run, together with
\* the acknowledgment; a task runs only after that, at most once, and its
\* run leaves the answers of the install endpoint as they were.
C10_Step ==
  /\ Len(tasks') >= Len(tasks)
  /\ Len(tasks') > Len(tasks) =>
       /\ Len(tasks') = Len(tasks) + 1
       /\ tasks'[Len(tasks')].runs = 0
       /\ [status |-> response'.status, body |-> response'.body] =
            Ack(tasks'[Len(tasks')].package_name)
  /\ \A i \in 1..Len(tasks) :
       /\ tasks'[i].runs \in {tasks[i].runs, tasks[i].runs + 1}
       /\ tasks'[i].runs /= tasks[i].runs => response' = response
       /\ tasks'[i].runs = tasks[i].runs => tasks'[i] = tasks[i]

\* C10: a background install is acknowledged before npm runs and with the
\* same answer whether npm later succeeds or fails; npm is attempted exactly
\* once for the request, and its outcome changes no later answer of the
\* install endpoint.
C10_FireAndForget ==
  /\ []C10_State
  /\ [][C10_Step]_vars
  /\ \A i \in 1..MaxTasks : (Len(tasks) >= i) ~> (Len(tasks) >= i /\ tasks[i].runs = 1)

\* A queued install has failed while the last answer is still its 202.
C10_Witness ==
  /\ response.op = "install_package"
  /\ response.background
  /\ response.status = 202
  /\ \E i \in 1..Len(tasks) : tasks[i].runs = 1 /\ tasks[i].success = Some(FALSE)

\* The answers that report an error: DuplicateResource, Forbidden, NotFound.
ErrorStatus == {400, 403, 404}

\* r leaves every row of table other than id in place and unchanged.
OthersKept(table, r, id) ==
  /\ DOMAIN r.table \ {id} = DOMAIN table \ {id}
  /\ \A k \in DOMAIN table \ {id} : r.table[k] = table[k]

\* C11, for every request at every state: a request answered with an error
\* leaves the table as it was; a successful update keeps every other row and
\* the target's id, owner_id and key (ApiKey) or name (NpmPackage); a
\* successful delete removes the target and nothing else.
C11_State ==
  /\ \A u \in Users, id \in KeyIds :
       LET g == get_api_key(api_keys, id, u)
           d == delete_api_key(api_keys, id, u)
       IN /\ g.table = api_keys
          /\ d.status \in ErrorStatus => d.table = api_keys
          /\ d.status \notin ErrorStatus =>
               /\ id \in DOMAIN api_keys
               /\ id \notin DOMAIN d.table
               /\ OthersKept(api_keys, d, id)
          /\ \A json \in ApiKeyUpdateBodies :
               LET w == update_api_key(api_keys, id, json, u)
               IN /\ w.status \in ErrorStatus => w.table = api_keys
                  /\ w.status \notin ErrorStatus =>
                       /\ id \in DOMAIN w.table
                       /\ OthersKept(api_keys, w, id)
                       /\ w.table[id].id = api_keys[id].id
                       /\ w.table[id].owner_id = api_keys[id].owner_id
                       /\ w.table[id].key = api_keys[id].key
  /\ \A u \in Users, id \in PackageIds :
       LET g == get_npm_package(npm_packages, id, u)
           d == delete_npm_package(npm_packages, id, u)
       IN /\ g.table = npm_packages
          /\ d.status \in ErrorStatus => d.table = npm_packages
          /\ d.status \notin ErrorStatus =>
               /\ id \in DOMAIN npm_packages
               /\ id \notin DOMAIN d.table
               /\ OthersKept(npm_packages, d, id)
          /\ \A json \in NpmPackageUpdateBodies :
               LET w == update_npm_package(npm_packages, id, json, u)
               IN /\ w.status \in ErrorStatus => w.table = npm_packages
                  /\ w.status \notin ErrorStatus =>
                       /\ id \in DOMAIN w.table
                       /\ OthersKept(npm_packages, w, id)
                       /\ w.table[id].id = npm_packages[id].id
                       /\ w.table[id].owner_id = npm_packages[id].owner_id
                       /\ w.table[id].name = npm_packages[id].name
  /\ \A u \in Users, package \in NpmPackageCreateInputs :
       LET c == create_npm_package(npm_packages, next_package_id, package, u)
       IN c.status \in ErrorStatus => c.table = npm_packages

\* The rows of a table that a step removed, and those it changed.
Removed(old, new) == DOMAIN old \ DOMAIN new
Changed(old, new) == {k \in DOMAIN old \cap DOMAIN new : new[k] /= old[k]}

\* C11, for every step that answers a request (a create that has only run
\* its duplicate query has not answered yet): an error answer comes with both
\* tables and both key sequences unchanged; an update removes and adds no
\* row and changes at most one; a delete removes exactly one row, adds none
\* and changes none.
C11_Step ==
  in_flight' = in_flight =>
  /\ response'.status \in ErrorStatus =>
       UNCHANGED <<api_keys, next_key_id, npm_packages, next_package_id>>
  /\ (response'.op = "update_api_key" /\ response'.status = 200) =>
       /\ DOMAIN api_keys' = DOMAIN api_keys
       /\ Cardinality(Changed(api_keys, api_keys')) <= 1
       /\ \A k \in DOMAIN api_keys :
            /\ api_keys'[k].id = k
            /\ api_keys'[k].owner_id = api_keys[k].owner_id
            /\ api_keys'[k].key = api_keys[k].key
       /\ npm_packages' = npm_packages
  /\ (response'.op = "update_npm_package" /\ response'.status = 200) =>
       /\ DOMAIN npm_packages' = DOMAIN npm_packages
       /\ Cardinality(Changed(npm_packages, npm_packages')) <= 1
       /\ \A k \in DOMAIN npm_packages :
            /\ npm_packages'[k].id = k
            /\ npm_packages'[k].owner_id = npm_packages[k].owner_id
            /\ npm_packages'[k].name = npm_packages[k].name
       /\ api_keys' = api_keys
  /\ (response'.op = "delete_api_key" /\ response'.status = 204) =>
       /\ Cardinality(Removed(api_keys, api_keys')) = 1
       /\ DOMAIN api_keys' \subseteq DOMAIN api_keys
       /\ Changed(api_keys, api_keys') = {}
       /\ npm_packages' = npm_packages
  /\ (response'.op = "delete_npm_package" /\ response'.status = 204) =>
       /\ Cardinality(Removed(npm_packages, npm_packages')) = 1
       /\ DOMAIN npm_packages' \subseteq DOMAIN npm_packages
       /\ Changed(npm_packages, npm_packages') = {}
       /\ api_keys' = api_keys

\* C11: every request on ApiKey or NpmPackage that ends in NotFound,
\* Forbidden or DuplicateResource leaves the whole store unchanged; a
\* successful update changes only the targeted row and never its id,
\* owner_id, the ApiKey's key or the NpmPackage's name; a successful delete
\* removes exactly the targeted row and leaves all others unchanged.
C11_FrameConditions == []C11_State /\ [][C11_Step]_vars

\* A package was just deleted while another package and two keys stay stored.
C11_Witness ==
  /\ response = [op |-> "delete_npm_package", status |-> 204]
  /\ Cardinality(DOMAIN npm_packages) = 1
  /\ Cardinality(DOMAIN api_keys) = 2

====
